---------------------------- MODULE Spec2Model ----------------------------
(***************************************************************************)
(* Model of the weather backend's two cache-augmented views,               *)
(* CurrentWeatherView.get and ForecastWeatherView.get (weather/views.py).  *)
(*                                                                         *)
(* A request runs in two steps, split at the only blocking point between   *)
(* its two accesses to the shared cache:                                   *)
(*   Begin    lines 19-33 / 126-140: strip, validate, cache.get, hit       *)
(*   Complete lines 35-116 / 142-217: upstream call returns, status        *)
(*            dispatch, normalisation, cache.set, except clauses           *)
(* Several requests may be between the two steps at once (worker threads). *)
(* Strings are sequences of one-character strings.  Temperatures are in    *)
(* tenths of a degree, wind speeds in hundredths of m/s, precipitation     *)
(* probabilities in hundredths.                                            *)
(***************************************************************************)
EXTENDS Integers, Sequences, FiniteSets, TLC

VARIABLES cache, now, req, ev, firstOk

vars == <<cache, now, req, ev, firstOk>>

-----------------------------------------------------------------------------
(* Bounds of the model *)

TickStep == 900
MaxClock == 2700
MaxList == 3

(* Program constants *)

TTL == 1800
HTTP_200_OK == 200
HTTP_400_BAD_REQUEST == 400
HTTP_404_NOT_FOUND == 404
HTTP_408_REQUEST_TIMEOUT == 408
HTTP_500_INTERNAL_SERVER_ERROR == 500
HTTP_503_SERVICE_UNAVAILABLE == 503

Reqs == {"r1", "r2"}
Modes == {"current", "forecast"}

None == [none |-> TRUE]

-----------------------------------------------------------------------------
(* Strings *)

Whitespace == {" ", "\t"}

RECURSIVE LStrip(_)
LStrip(s) == IF s # <<>> /\ Head(s) \in Whitespace THEN LStrip(Tail(s)) ELSE s

RECURSIVE RStrip(_)
RStrip(s) ==
  IF s # <<>> /\ s[Len(s)] \in Whitespace
    THEN RStrip(SubSeq(s, 1, Len(s) - 1))
    ELSE s

StripNone(s) == s

(* str.strip() *)
Strip(s) == RStrip(LStrip(s))

LowerChar(c) ==
  CASE c = "P" -> "p"
    [] c = "Q" -> "q"
    [] c = "L" -> "l"
    [] c = "R" -> "r"
    [] OTHER -> c

UpperChar(c) ==
  CASE c = "p" -> "P"
    [] c = "q" -> "Q"
    [] c = "l" -> "L"
    [] c = "r" -> "R"
    [] OTHER -> c

IsCased(c) == LowerChar(c) # c \/ UpperChar(c) # c

(* str.lower() *)
Lower(s) == [i \in 1..Len(s) |-> LowerChar(s[i])]

(* str.title(): the first cased character of every run is upper-cased, the *)
(* following ones lower-cased.                                             *)
Title(s) ==
  [i \in 1..Len(s) |->
     IF i > 1 /\ IsCased(s[i - 1]) THEN LowerChar(s[i]) ELSE UpperChar(s[i])]

(* round(x) of Python 3 for x = n/d: nearest integer, ties to even. *)
PyRound(n, d) ==
  LET q == n \div d
      r == n % d
  IN  IF 2 * r < d THEN q
      ELSE IF 2 * r > d THEN q + 1
      ELSE IF q % 2 = 0 THEN q ELSE q + 1


-----------------------------------------------------------------------------
(* Upstream JSON documents.  A dict is a record; d[k] of a missing key     *)
(* raises KeyError, d.get(k, v) does not.                                  *)

Has(d, k) == k \in DOMAIN d

Get(d, k, default) == IF Has(d, k) THEN d[k] ELSE default

Str_lp_rq == <<"l", "P", " ", "r", "q">>
Str_London == <<"L", "p">>

MainA == [temp |-> 152, feels_like |-> 148, temp_min |-> 145, temp_max |-> 155,
          humidity |-> 80, pressure |-> 1012]
MainB == [temp |-> 165, feels_like |-> 175, temp_min |-> -25, temp_max |-> 166,
          humidity |-> 55, pressure |-> 1001]
WeatherA == <<[description |-> Str_lp_rq, main |-> "Rain", icon |-> "10d"]>>
WeatherB == <<[description |-> <<"q">>, main |-> "Clear", icon |-> "01d"]>>
CityDoc == [name |-> Str_London, country |-> "GB", coord |-> [lat |-> 51, lon |-> 0]]

CurrentA ==
  [name |-> Str_London, sys |-> [country |-> "GB", sunrise |-> 100, sunset |-> 200],
   coord |-> [lat |-> 51, lon |-> 0], main |-> MainA, weather |-> WeatherA,
   wind |-> [speed |-> 347, deg |-> 90], clouds |-> [all |-> 40],
   visibility |-> 9000, timezone |-> 3600, dt |-> 150]

(* no wind.deg and no visibility: both are optional upstream *)
CurrentB ==
  [name |-> Str_London, sys |-> [country |-> "GB", sunrise |-> 100, sunset |-> 200],
   coord |-> [lat |-> 51, lon |-> 0], main |-> MainB, weather |-> WeatherB,
   wind |-> [speed |-> 512], clouds |-> [all |-> 0],
   timezone |-> 3600, dt |-> 160]

(* a 200 answer that lacks the expected "main" field *)
CurrentNoMain ==
  [name |-> Str_London, sys |-> [country |-> "GB", sunrise |-> 100, sunset |-> 200],
   coord |-> [lat |-> 51, lon |-> 0], weather |-> WeatherA,
   wind |-> [speed |-> 347], clouds |-> [all |-> 40], timezone |-> 3600, dt |-> 150]

CurrentBodies == {CurrentA, CurrentB, CurrentNoMain}

ItemA == [dt |-> 1, dt_txt |-> "t1", main |-> MainA, weather |-> WeatherA,
          wind |-> [speed |-> 347], clouds |-> [all |-> 40], pop |-> 42]
ItemB == [dt |-> 2, dt_txt |-> "t2", main |-> MainB, weather |-> WeatherB,
          wind |-> [speed |-> 512], clouds |-> [all |-> 0]]
(* an interval entry without its "weather" field *)
ItemBad == [dt |-> 3, dt_txt |-> "t3", main |-> MainA,
            wind |-> [speed |-> 347], clouds |-> [all |-> 40]]

Items == {ItemA, ItemB, ItemBad}

SeqsUpTo(S, n) == UNION {[1..k -> S] : k \in 0..n}

(* forecast documents with lists of up to n entries, and one without "city" *)
ForecastBodies(n) ==
  {[city |-> CityDoc, list |-> l] : l \in SeqsUpTo(Items, n)}
    \cup {[list |-> <<ItemA>>]}

(* the subscripts of lines 53-75 all succeed *)
CurrentWellFormed(data) ==
  /\ \A k \in {"name", "sys", "coord", "main", "weather", "wind", "clouds",
               "timezone", "dt"} : Has(data, k)
  /\ \A k \in {"country", "sunrise", "sunset"} : Has(data.sys, k)
  /\ \A k \in {"lat", "lon"} : Has(data.coord, k)
  /\ \A k \in {"temp", "feels_like", "temp_min", "temp_max", "humidity",
               "pressure"} : Has(data.main, k)
  /\ Len(data.weather) >= 1
  /\ \A k \in {"description", "main", "icon"} : Has(data.weather[1], k)
  /\ Has(data.wind, "speed")
  /\ Has(data.clouds, "all")

(* lines 51-76: weather_data *)
NormalizeCurrent(data) ==
  [success |-> TRUE,
   city |-> data.name,
   country |-> data.sys.country,
   coordinates |-> [lat |-> data.coord.lat, lon |-> data.coord.lon],
   temperature |-> PyRound(data.main.temp, 10),
   feels_like |-> PyRound(data.main.feels_like, 10),
   temp_min |-> PyRound(data.main.temp_min, 10),
   temp_max |-> PyRound(data.main.temp_max, 10),
   humidity |-> data.main.humidity,
   pressure |-> data.main.pressure,
   description |-> Title(data.weather[1].description),
   main |-> data.weather[1].main,
   icon |-> data.weather[1].icon,
   wind_speed |-> PyRound(data.wind.speed, 10),
   wind_deg |-> Get(data.wind, "deg", 0),
   clouds |-> data.clouds.all,
   visibility |-> Get(data, "visibility", 0),
   sunrise |-> data.sys.sunrise,
   sunset |-> data.sys.sunset,
   timezone |-> data.timezone,
   timestamp |-> data.dt]

(* the subscripts of lines 161-174 all succeed *)
ItemWellFormed(item) ==
  /\ \A k \in {"dt", "dt_txt", "main", "weather", "wind", "clouds"} : Has(item, k)
  /\ \A k \in {"temp", "feels_like", "temp_min", "temp_max", "humidity",
               "pressure"} : Has(item.main, k)
  /\ Len(item.weather) >= 1
  /\ \A k \in {"description", "main", "icon"} : Has(item.weather[1], k)
  /\ Has(item.wind, "speed")
  /\ Has(item.clouds, "all")

(* lines 160-175: one appended entry; pop is a fraction in hundredths, *)
(* and pop * 100 is the same number of percent                         *)
NormalizeItem(item) ==
  [datetime |-> item.dt,
   date_text |-> item.dt_txt,
   temperature |-> PyRound(item.main.temp, 10),
   feels_like |-> PyRound(item.main.feels_like, 10),
   temp_min |-> PyRound(item.main.temp_min, 10),
   temp_max |-> PyRound(item.main.temp_max, 10),
   humidity |-> item.main.humidity,
   pressure |-> item.main.pressure,
   description |-> Title(item.weather[1].description),
   main |-> item.weather[1].main,
   icon |-> item.weather[1].icon,
   wind_speed |-> PyRound(item.wind.speed, 10),
   clouds |-> item.clouds.all,
   pop |-> (Get(item, "pop", 0) * 100) \div 100]

(* lines 158-175: the loop.  acc is forecasts so far; the result is        *)
(* [ok, forecasts], ok = FALSE when an entry raised.                       *)
RECURSIVE ForecastLoopPrepend(_, _)
ForecastLoopPrepend(list, acc) ==
  IF list = <<>> THEN [ok |-> TRUE, forecasts |-> acc]
  ELSE IF ~ItemWellFormed(Head(list)) THEN [ok |-> FALSE, forecasts |-> acc]
  ELSE ForecastLoopPrepend(Tail(list), <<NormalizeItem(Head(list))>> \o acc)

RECURSIVE ForecastLoop(_, _)
ForecastLoop(list, acc) ==
  IF list = <<>> THEN [ok |-> TRUE, forecasts |-> acc]
  ELSE IF ~ItemWellFormed(Head(list)) THEN [ok |-> FALSE, forecasts |-> acc]
  ELSE ForecastLoop(Tail(list), Append(acc, NormalizeItem(Head(list))))

(* data['list'] and data['city'][...] of lines 159, 179-183 succeed *)
ForecastWellFormed(data) ==
  /\ Has(data, "list")
  /\ ForecastLoop(data.list, <<>>).ok
  /\ Has(data, "city")
  /\ \A k \in {"name", "country", "coord"} : Has(data.city, k)
  /\ \A k \in {"lat", "lon"} : Has(data.city.coord, k)

(* lines 177-186: forecast_data *)
NormalizeForecast(data) ==
  [success |-> TRUE,
   city |-> data.city.name,
   country |-> data.city.country,
   coordinates |-> [lat |-> data.city.coord.lat, lon |-> data.city.coord.lon],
   forecasts |-> ForecastLoop(data.list, <<>>).forecasts]

-----------------------------------------------------------------------------
(* Responses *)

Message(text, city) == [text |-> text, city |-> city]

ErrorResponseNoStatus(code, message) ==
  [status |-> HTTP_200_OK, body |-> [success |-> FALSE, message |-> message]]

(* Response({'success': False, 'message': ...}, status=...) *)
ErrorResponse(code, message) ==
  [status |-> code, body |-> [success |-> FALSE, message |-> message]]

(* Response(data, status=status.HTTP_200_OK) *)
OkResponse(data) == [status |-> HTTP_200_OK, body |-> data]

NoResponse == [status |-> 0, body |-> None]

-----------------------------------------------------------------------------
(* Exceptions: the classes an except clause can match *)

(* the class and its base classes *)
Mro(exc) ==
  CASE exc = "ReadTimeout" ->
         {"ReadTimeout", "Timeout", "RequestException", "Exception"}
    [] exc = "ConnectTimeout" ->
         {"ConnectTimeout", "ConnectionError", "Timeout", "RequestException",
          "Exception"}
    [] exc = "ConnectionError" ->
         {"ConnectionError", "RequestException", "Exception"}
    [] OTHER -> {exc, "Exception"}

IsInstance(exc, cls) == cls \in Mro(exc)

TimeoutClause ==
  [cls |-> "Timeout",
   resp |-> ErrorResponse(HTTP_408_REQUEST_TIMEOUT,
                          Message("Request timeout. Please try again.", <<>>))]
NetworkClause ==
  [cls |-> "RequestException",
   resp |-> ErrorResponse(HTTP_503_SERVICE_UNAVAILABLE,
                          Message("Network error. Please check your connection.", <<>>))]
UnexpectedClause ==
  [cls |-> "Exception",
   resp |-> ErrorResponse(HTTP_500_INTERNAL_SERVER_ERROR,
                          Message("An unexpected error occurred", <<>>))]

ExceptClausesNetworkFirst(mode) ==
  IF mode = "current"
    THEN <<NetworkClause, TimeoutClause, UnexpectedClause>>
    ELSE <<TimeoutClause, UnexpectedClause>>

(* the except clauses of the try statement, in source order *)
ExceptClauses(mode) ==
  IF mode = "current"
    THEN <<TimeoutClause, NetworkClause, UnexpectedClause>>
    ELSE <<TimeoutClause, UnexpectedClause>>

(* the first clause that matches handles the exception *)
Handle(mode, exc) ==
  LET cl == ExceptClauses(mode)
      i == CHOOSE i \in 1..Len(cl) :
             /\ IsInstance(exc, cl[i].cls)
             /\ \A j \in 1..(i - 1) : ~IsInstance(exc, cl[j].cls)
  IN  cl[i].resp

-----------------------------------------------------------------------------
(* The cache store: key -> [val, exp]; an entry is gone once exp <= now *)

EmptyCache == [k \in {} |-> None]

Live(c, key, t) == key \in DOMAIN c /\ c[key].exp > t

(* cache.get(key) *)
CacheGet(c, key, t) == IF Live(c, key, t) THEN c[key].val ELSE None

CacheSetSeconds30(c, key, val, t) ==
  [k \in DOMAIN c \cup {key} |->
     IF k = key THEN [val |-> val, exp |-> t + 30] ELSE c[k]]

(* cache.set(key, val, timeout=1800) *)
CacheSet(c, key, val, t) ==
  [k \in DOMAIN c \cup {key} |->
     IF k = key THEN [val |-> val, exp |-> t + TTL] ELSE c[k]]

(* the store's own eviction *)
Evict(c, t) == [k \in {x \in DOMAIN c : c[x].exp > t} |-> c[k]]

(* truth value of a cached object: None and an empty dict are false *)
Truthy(v) == v # None /\ DOMAIN v # {}

Prefix(mode) ==
  IF mode = "current"
    THEN <<"w", "e", "a", "t", "h", "e", "r", "_",
           "c", "u", "r", "r", "e", "n", "t", "_">>
    ELSE <<"w", "e", "a", "t", "h", "e", "r", "_",
           "f", "o", "r", "e", "c", "a", "s", "t", "_">>

CacheKeyNoLower(mode, city) == Prefix(mode) \o city

(* f'weather_current_{city.lower()}' and f'weather_forecast_{city.lower()}' *)
CacheKey(mode, city) == Prefix(mode) \o Lower(city)

-----------------------------------------------------------------------------
(* The upstream answer to requests.get *)

UpResponse(status, body) == [status |-> status, body |-> body, exc |-> "none"]
UpRaise(exc) == [status |-> 0, body |-> None, exc |-> exc]
NoUp == UpRaise("none")

UpstreamRaises == {"ReadTimeout", "ConnectTimeout", "ConnectionError",
                   "AttributeError"}
OtherStatuses == {401}

Bodies(mode, n) == IF mode = "current" THEN CurrentBodies ELSE ForecastBodies(n)

(* every answer: 200 with each document, 404, another status, each raise *)
AllOutcomes(mode, n) ==
  {UpResponse(HTTP_200_OK, b) : b \in Bodies(mode, n)}
    \cup {UpResponse(s, None) : s \in {HTTP_404_NOT_FOUND} \cup OtherStatuses}
    \cup {UpRaise(e) : e \in UpstreamRaises}

(* two different good documents, and a 404 *)
FewOutcomes(mode) ==
  {UpResponse(HTTP_200_OK, b) :
     b \in IF mode = "current"
             THEN {CurrentA, CurrentB}
             ELSE {[city |-> CityDoc, list |-> <<ItemA>>],
                   [city |-> CityDoc, list |-> <<ItemB>>]}}
    \cup {UpResponse(HTTP_404_NOT_FOUND, None)}

(* the upstream answers a specification considers *)
Outcomes(which, mode) ==
  CASE which = "few" -> FewOutcomes(mode)
    [] which = "all" -> AllOutcomes(mode, 1)
    [] OTHER -> AllOutcomes(mode, MaxList)

WellFormed(mode, data) ==
  IF mode = "current" THEN CurrentWellFormed(data) ELSE ForecastWellFormed(data)

Normalize(mode, data) ==
  IF mode = "current" THEN NormalizeCurrent(data) ELSE NormalizeForecast(data)

(* what the try statement leaves behind: the response and the cache *)
Result(resp, c, didSet) == [resp |-> resp, cache |-> c, didSet |-> didSet]

(* except clause taken for exc; the cache is as it was *)
OnRaise(mode, exc, c) == Result(Handle(mode, exc), c, FALSE)

On200Recheck(mode, key, data, c, t) ==
  IF ~WellFormed(mode, data) THEN OnRaise(mode, "KeyError", c)
  ELSE IF Live(c, key, t) THEN Result(OkResponse(c[key].val), c, FALSE)
  ELSE Result(OkResponse(Normalize(mode, data)),
              CacheSet(c, key, Normalize(mode, data), t), TRUE)

(* lines 47-82 / 154-192 *)
On200(mode, key, data, c, t) ==
  IF ~WellFormed(mode, data) THEN OnRaise(mode, "KeyError", c)
  ELSE Result(OkResponse(Normalize(mode, data)),
              CacheSet(c, key, Normalize(mode, data), t), TRUE)

NotFound(city) ==
  ErrorResponse(HTTP_404_NOT_FOUND, Message("City \"{city}\" not found", city))

On404Cached(mode, city, key, c, t) ==
  Result(NotFound(city), CacheSet(c, key, NotFound(city).body, t), TRUE)

(* lines 84-88 / 194-198 *)
On404(mode, city, key, c, t) == Result(NotFound(city), c, FALSE)

(* lines 90-95 / 200-204 *)
OnOtherStatus(mode, c) ==
  Result(ErrorResponse(HTTP_500_INTERNAL_SERVER_ERROR,
           Message(IF mode = "current" THEN "Failed to fetch weather data"
                                       ELSE "Failed to fetch forecast data", <<>>)),
         c, FALSE)

(* lines 35-116 / 142-217 once requests.get has answered up *)
AfterUpstream(mode, city, key, up, c, t) ==
  IF up.exc # "none" THEN OnRaise(mode, up.exc, c)
  ELSE IF up.status = HTTP_200_OK THEN On200(mode, key, up.body, c, t)
  ELSE IF up.status = HTTP_404_NOT_FOUND THEN On404(mode, city, key, c, t)
  ELSE OnOtherStatus(mode, c)

-----------------------------------------------------------------------------
(* Requests *)

(* request.query_params: the city parameter may be absent *)
Query(val) == [present |-> TRUE, val |-> val]
NoQuery == [present |-> FALSE, val |-> <<>>]

Queries == {NoQuery, Query(<<>>), Query(<<" ">>), Query(<<"p">>),
            Query(<<"\t", "P", " ">>)}

(* request.query_params.get('city', '') *)
QueryParam(q) == IF q.present THEN q.val ELSE <<>>

Idle == [pc |-> "idle", mode |-> "none", query |-> NoQuery, city |-> <<>>,
         key |-> <<>>]

Calling(mode, q, city, key) ==
  [pc |-> "calling", mode |-> mode, query |-> q, city |-> city, key |-> key]

(* the last request that ended: what it was, what it did, what it returned *)
Ended(mode, q, city, key, up, resp, didGet, called, didSet, raised) ==
  [mode |-> mode, query |-> q, city |-> city, key |-> key, up |-> up,
   resp |-> resp, didGet |-> didGet, called |-> called, didSet |-> didSet,
   raised |-> raised]

NoEvent ==
  Ended("none", NoQuery, <<>>, <<>>, NoUp, NoResponse, FALSE, FALSE,
        FALSE, "none")

(* history: the first payload stored under key in the current TTL window, *)
(* with the time 1800 s after it was stored                               *)
Remember(h, key, val, t) ==
  [k \in DOMAIN h \cup {key} |->
     IF k = key THEN [val |-> val, exp |-> t + TTL] ELSE h[k]]

Init ==
  /\ cache = EmptyCache
  /\ now = 0
  /\ req = [r \in Reqs |-> Idle]
  /\ ev = NoEvent
  /\ firstOk = EmptyCache

(* lines 19-33 / 126-140: validation, cache lookup, cache hit *)
Begin(r, mode, q) ==
  /\ req[r].pc = "idle"
  /\ LET city == Strip(QueryParam(q))
         key == CacheKey(mode, city)
         cached == CacheGet(cache, key, now)
     IN  IF city = <<>>
           THEN /\ ev' = Ended(mode, q, city, <<>>, NoUp,
                               ErrorResponse(HTTP_400_BAD_REQUEST,
                                 Message("City parameter is required", <<>>)),
                               FALSE, FALSE, FALSE, "none")
                /\ req' = req
           ELSE IF Truthy(cached)
             THEN /\ ev' = Ended(mode, q, city, key, NoUp, OkResponse(cached),
                                 TRUE, FALSE, FALSE, "none")
                  /\ req' = req
             ELSE /\ req' = [req EXCEPT ![r] = Calling(mode, q, city, key)]
                  /\ ev' = ev
  /\ UNCHANGED <<cache, now, firstOk>>

(* lines 35-116 / 142-217: requests.get answers up, the view responds *)
Complete(r, up) ==
  /\ req[r].pc = "calling"
  /\ LET rq == req[r]
         res == AfterUpstream(rq.mode, rq.city, rq.key, up, cache, now)
     IN  /\ cache' = res.cache
         /\ ev' = Ended(rq.mode, rq.query, rq.city, rq.key, up, res.resp,
                        TRUE, TRUE, res.didSet, "none")
         /\ firstOk' = IF res.didSet /\ ~Live(firstOk, rq.key, now)
                         THEN Remember(firstOk, rq.key, res.resp.body, now)
                         ELSE firstOk
  /\ req' = [req EXCEPT ![r] = Idle]
  /\ now' = now

(* time passes; the store drops what has expired *)
Tick ==
  /\ now + TickStep <= MaxClock
  /\ now' = now + TickStep
  /\ cache' = Evict(cache, now')
  /\ firstOk' = Evict(firstOk, now')
  /\ UNCHANGED <<req, ev>>

(* cache.get raises at line 29 / 136, outside the try statement *)
BeginCacheFail(r, mode, q) ==
  /\ req[r].pc = "idle"
  /\ Strip(QueryParam(q)) # <<>>
  /\ ev' = Ended(mode, q, Strip(QueryParam(q)),
                 CacheKey(mode, Strip(QueryParam(q))), NoUp, NoResponse,
                 TRUE, FALSE, FALSE, "CacheError")
  /\ UNCHANGED <<cache, now, req, firstOk>>

(* cache.set raises at line 79 / 189, inside the try statement *)
CompleteSetFail(r, up) ==
  /\ req[r].pc = "calling"
  /\ up.exc = "none" /\ up.status = HTTP_200_OK
  /\ WellFormed(req[r].mode, up.body)
  /\ ev' = Ended(req[r].mode, req[r].query, req[r].city, req[r].key, up,
                 OnRaise(req[r].mode, "CacheError", cache).resp,
                 TRUE, TRUE, TRUE, "none")
  /\ req' = [req EXCEPT ![r] = Idle]
  /\ UNCHANGED <<cache, now, firstOk>>

(* requests.get answers one of the requests that are waiting for it *)
Answer(r, which) ==
  /\ req[r].pc = "calling"
  /\ \E up \in Outcomes(which, req[r].mode) : Complete(r, up)

(* cache.set raises in a request whose upstream answer was usable *)
AnswerSetFail(r, which) ==
  /\ req[r].pc = "calling"
  /\ \E up \in Outcomes(which, req[r].mode) : CompleteSetFail(r, up)

Next(R, M, Q, which) ==
  \/ \E r \in R, mode \in M, q \in Q : Begin(r, mode, q)
  \/ \E r \in R : Answer(r, which)
  \/ Tick

NextFault(R, M, Q, which) ==
  \/ Next(R, M, Q, which)
  \/ \E r \in R, mode \in M, q \in Q : BeginCacheFail(r, mode, q)
  \/ \E r \in R : AnswerSetFail(r, which)

(* worker threads serving both views at once *)
Spec == Init /\ [][Next(Reqs, Modes, Queries, "few")]_vars

(* one request after the other, every upstream answer *)
SpecSeq == Init /\ [][Next({"r1"}, Modes, Queries, "all")]_vars

(* forecast requests, lists of up to MaxList entries *)
SpecForecast ==
  Init /\ [][Next({"r1"}, {"forecast"}, {NoQuery, Query(<<"p">>)}, "long")]_vars

(* as SpecSeq, with a cache store whose get and set may raise *)
SpecCacheFault == Init /\ [][NextFault({"r1"}, Modes, Queries, "all")]_vars

-----------------------------------------------------------------------------
(* Vocabulary of the properties *)

(* a request ended in the last step / ends in this step *)
HasEnded == ev.mode # "none"
Completes(r) == req[r].pc = "calling" /\ req'[r].pc = "idle"
Misses(r) == req[r].pc = "idle" /\ req'[r].pc = "calling"

(* the city parameter is absent, empty or white space only *)
Blank(q) ==
  ~q.present \/ \A i \in 1..Len(q.val) : q.val[i] \in Whitespace

ErrorShape(body) ==
  /\ DOMAIN body = {"success", "message"}
  /\ body.success = FALSE

(* ev is a response served from the cache / built from an upstream answer *)
ServedFromCache == HasEnded /\ ev.didGet /\ ~ev.called /\ ev.raised = "none"
Usable(mode, up) ==
  up.exc = "none" /\ up.status = HTTP_200_OK /\ WellFormed(mode, up.body)

(* the HTTP status section 4.1 gives for an upstream answer of GetCurrent *)
TaxonomyStatus(mode, up) ==
  IF up.exc \in {"ReadTimeout", "ConnectTimeout"} THEN HTTP_408_REQUEST_TIMEOUT
  ELSE IF up.exc = "ConnectionError" THEN HTTP_503_SERVICE_UNAVAILABLE
  ELSE IF up.exc # "none" THEN HTTP_500_INTERNAL_SERVER_ERROR
  ELSE IF up.status = HTTP_404_NOT_FOUND THEN HTTP_404_NOT_FOUND
  ELSE IF up.status # HTTP_200_OK THEN HTTP_500_INTERNAL_SERVER_ERROR
  ELSE IF WellFormed(mode, up.body) THEN HTTP_200_OK
  ELSE HTTP_500_INTERNAL_SERVER_ERROR

(* key k holds the same thing before and after the step *)
SameEntry(k) ==
  /\ (k \in DOMAIN cache') = (k \in DOMAIN cache)
  /\ k \in DOMAIN cache => cache'[k] = cache[k]

AllKeys == DOMAIN cache \cup DOMAIN cache'

-----------------------------------------------------------------------------
(* C1: the cache content changes only in the step of a request whose       *)
(* upstream call returned status 200 and whose normalisation completed     *)
(* (or by expiry); the step in which a request ends on an error path       *)
(* leaves the cache content as it was.                                     *)
C1_CacheWrittenOnlyOnSuccess ==
  [][/\ cache' # cache =>
          \/ now' # now /\ cache' = Evict(cache, now')
          \/ \E r \in Reqs :
               /\ Completes(r)
               /\ Usable(ev'.mode, ev'.up)
               /\ ev'.resp.status = HTTP_200_OK
               /\ cache'[req[r].key].val = ev'.resp.body
               /\ \A k \in AllKeys \ {req[r].key} : SameEntry(k)
     /\ \A r \in Reqs :
          Completes(r) /\ ev'.resp.status # HTTP_200_OK => cache' = cache
     /\ \A r \in Reqs :
          Completes(r) /\ ~Usable(ev'.mode, ev'.up) =>
            cache' = cache /\ ev'.resp.status # HTTP_200_OK
    ]_vars

(* an upstream 404 has been answered while the cache held an entry *)
C1_Witness ==
  /\ HasEnded /\ ev.called
  /\ ev.up.status = HTTP_404_NOT_FOUND
  /\ DOMAIN cache # {}

(* C3: a request whose city is absent, empty or white space only ends with *)
(* 400 and the validation message, having made no cache read, no cache     *)
(* write and no upstream call; no such request ever waits for the upstream *)
C3_BlankCityRejectedFirst ==
  /\ HasEnded /\ Blank(ev.query) =>
       /\ ev.resp.status = HTTP_400_BAD_REQUEST
       /\ ErrorShape(ev.resp.body)
       /\ ev.resp.body.message.text = "City parameter is required"
       /\ ~ev.didGet /\ ~ev.didSet /\ ~ev.called
  /\ \A r \in Reqs : req[r].pc = "calling" => ~Blank(req[r].query)

(* a white-space-only city was rejected while the cache held an entry *)
C3_Witness ==
  /\ HasEnded /\ ev.query.present /\ ev.query.val = <<" ">>
  /\ ev.resp.status = HTTP_400_BAD_REQUEST
  /\ DOMAIN cache # {}

(* C7: in GetCurrent, after a cache miss, the upstream answer decides the  *)
(* status: 200 well formed -> 200, 404 -> 404, other status -> 500,        *)
(* timeout -> 408, other network failure -> 503, anything else -> 500      *)
C7_CurrentStatusMapping ==
  HasEnded /\ ev.mode = "current" /\ ev.called =>
    /\ ev.raised = "none"
    /\ ev.resp.status = TaxonomyStatus("current", ev.up)
    /\ ev.up.exc \in {"ReadTimeout", "ConnectTimeout"} =>
         ev.resp.status # HTTP_503_SERVICE_UNAVAILABLE

(* a connect timeout, which is a ConnectionError too, was answered 408 *)
C7_Witness ==
  /\ HasEnded /\ ev.mode = "current" /\ ev.called
  /\ ev.up.exc = "ConnectTimeout"
  /\ ev.resp.status = HTTP_408_REQUEST_TIMEOUT

(* C4 as claimed: GetForecast answers every upstream outcome with the      *)
(* status GetCurrent gives it; a network failure that is no timeout is 503 *)
C4_ForecastSameTaxonomy ==
  HasEnded /\ ev.mode = "forecast" /\ ev.called =>
    /\ ev.resp.status = TaxonomyStatus("forecast", ev.up)
    /\ ev.up.exc = "ConnectionError" =>
         ev.resp.status = HTTP_503_SERVICE_UNAVAILABLE

(* C5 as claimed: every request that has ended, whatever failed in it,     *)
(* ended with a response of the taxonomy and not with a raised exception   *)
C5_NoRawException ==
  HasEnded =>
    /\ ev.raised = "none"
    /\ ev.resp.status \in {HTTP_200_OK, HTTP_400_BAD_REQUEST, HTTP_404_NOT_FOUND,
                           HTTP_408_REQUEST_TIMEOUT, HTTP_500_INTERNAL_SERVER_ERROR,
                           HTTP_503_SERVICE_UNAVAILABLE}
    /\ ev.resp.status # HTTP_200_OK => ErrorShape(ev.resp.body)

(* C10: every cache entry has success = true; a response has status 200    *)
(* exactly if its body has success = true; every other response is         *)
(* {success: false, message}                                               *)
C10_SuccessFlagMatchesStatus ==
  /\ \A k \in DOMAIN cache :
       Has(cache[k].val, "success") /\ cache[k].val.success = TRUE
  /\ HasEnded =>
       /\ Has(ev.resp.body, "success")
       /\ (ev.resp.status = HTTP_200_OK) = (ev.resp.body.success = TRUE)
       /\ ev.resp.status # HTTP_200_OK => ErrorShape(ev.resp.body)

(* a response served from the cache, and the entry still there *)
C10_Witness ==
  /\ ServedFromCache
  /\ ev.resp.status = HTTP_200_OK
  /\ Live(cache, ev.key, now)

-----------------------------------------------------------------------------
(* core is v without its leading and trailing white space *)
IsCoreOf(core, v) ==
  \E i \in 0..Len(v), j \in 0..Len(v) :
    /\ i <= j
    /\ core = SubSeq(v, i + 1, j)
    /\ \A x \in 1..Len(v) : (x <= i \/ x > j) => v[x] \in Whitespace
    /\ core # <<>> /\ core[1] \notin Whitespace /\ core[Len(core)] \notin Whitespace

SameLetter(c, d) == c = d \/ UpperChar(c) = d \/ c = UpperChar(d)

(* two city parameters that differ only in letter case and in surrounding  *)
(* white space                                                             *)
SameCity(q1, q2) ==
  \E c1 \in {SubSeq(q1.val, a, b) : a, b \in 1..Len(q1.val)},
     c2 \in {SubSeq(q2.val, a, b) : a, b \in 1..Len(q2.val)} :
    /\ IsCoreOf(c1, q1.val) /\ IsCoreOf(c2, q2.val)
    /\ Len(c1) = Len(c2)
    /\ \A i \in 1..Len(c1) : SameLetter(c1[i], c2[i])

(* the cache accesses in sight: of the requests waiting for the upstream   *)
(* and of the request that ended last                                      *)
Accesses ==
  {[mode |-> req[r].mode, query |-> req[r].query, key |-> req[r].key] :
     r \in {x \in Reqs : req[x].pc = "calling"}}
  \cup (IF HasEnded /\ ev.didGet
          THEN {[mode |-> ev.mode, query |-> ev.query, key |-> ev.key]}
          ELSE {})

(* C6: within a mode, cities that differ only in case or surrounding white *)
(* space use one key; requests of different modes never use the same key,  *)
(* and every entry of the cache is under the key of one mode               *)
C6_KeysFoldCaseAndSeparateModes ==
  /\ \A a, b \in Accesses :
       /\ a.mode = b.mode /\ SameCity(a.query, b.query) => a.key = b.key
       /\ a.mode # b.mode => a.key # b.key
  /\ \A a \in Accesses, k \in DOMAIN cache :
       (a.mode = "current") = Has(cache[k].val, "forecasts") => a.key # k

(* a request for "p" waits for the upstream while one for "<tab>P " of the *)
(* same mode has been served from the cache                                *)
C6_Witness ==
  /\ ServedFromCache
  /\ ev.query.val = <<"\t", "P", " ">>
  /\ \E r \in Reqs : /\ req[r].pc = "calling"
                     /\ req[r].mode # ev.mode
                     /\ req[r].query.val = <<"p">>
  /\ \E k \in DOMAIN cache : k # ev.key

(* C9: a forecast built from an upstream list has one entry per upstream   *)
(* entry, the i-th being the normalisation of the i-th; if an entry cannot *)
(* be normalised the request ends with the 500 of InternalError, returns   *)
(* no forecasts and leaves the cache as it was                             *)
C9_ForecastOrderAndAllOrNothing ==
  [][\A r \in Reqs :
       Completes(r) /\ ev'.mode = "forecast" /\ ev'.up.exc = "none"
         /\ ev'.up.status = HTTP_200_OK /\ Has(ev'.up.body, "list") =>
       LET list == ev'.up.body.list
           body == ev'.resp.body
       IN  /\ ev'.resp.status = HTTP_200_OK =>
                /\ Len(body.forecasts) = Len(list)
                /\ \A i \in 1..Len(list) : body.forecasts[i] = NormalizeItem(list[i])
                /\ \A i \in 1..Len(list) : body.forecasts[i].datetime = list[i].dt
                /\ cache'[req[r].key].val = body
           /\ (\E i \in 1..Len(list) : ~ItemWellFormed(list[i])) =>
                /\ ev'.resp.status = HTTP_500_INTERNAL_SERVER_ERROR
                /\ ErrorShape(body)
                /\ body.message.text = "An unexpected error occurred"
                /\ cache' = cache
    ]_vars

(* a forecast of two different entries has been returned *)
C9_Witness ==
  /\ HasEnded /\ ev.mode = "forecast" /\ ev.called
  /\ ev.resp.status = HTTP_200_OK
  /\ Len(ev.resp.body.forecasts) = 2
  /\ ev.resp.body.forecasts[1].datetime > ev.resp.body.forecasts[2].datetime

(* C8: a request that missed the cache returns the response built from its *)
(* own upstream answer whatever other requests do meanwhile; its payload   *)
(* is what the cache holds under its key afterwards, and the entries under *)
(* other keys are as they were                                             *)
C8_NoCoordination ==
  [][\A r \in Reqs :
       Completes(r) =>
         /\ ev'.called /\ ev'.key = req[r].key
         /\ \A k \in AllKeys \ {req[r].key} : SameEntry(k)
         /\ Usable(ev'.mode, ev'.up) =>
              /\ ev'.resp = OkResponse(Normalize(ev'.mode, ev'.up.body))
              /\ Live(cache', req[r].key, now)
              /\ cache'[req[r].key].val = ev'.resp.body
         /\ ~Usable(ev'.mode, ev'.up) => SameEntry(req[r].key)
    ]_vars

(* a second request for a key has called the upstream too and has replaced *)
(* the first one's payload, not yet expired, by its own                    *)
C8_Witness ==
  /\ HasEnded /\ ev.called /\ ev.didSet
  /\ Live(firstOk, ev.key, now)
  /\ firstOk[ev.key].val # ev.resp.body
  /\ cache[ev.key].val = ev.resp.body
  /\ \E k \in DOMAIN cache : k # ev.key

(* C2 as claimed: less than 1800 s after a GetCurrent succeeded via the    *)
(* upstream, a GetCurrent for its key makes no upstream call and returns   *)
(* the payload of that first request                                       *)
C2_SameAsFirstWithinTtl ==
  [][/\ \A r \in Reqs :
          Misses(r) /\ req'[r].mode = "current" => ~Live(firstOk, req'[r].key, now)
     /\ ev' # ev /\ ev'.mode = "current" /\ ev'.didGet /\ ~ev'.called
          /\ Live(firstOk, ev'.key, now) =>
          /\ ev'.resp.status = HTTP_200_OK
          /\ ev'.resp.body = firstOk[ev'.key].val
    ]_vars

(* C2 amended: ... returns the payload the cache holds under the key at    *)
(* that time; an entry that has not expired is replaced only by a request  *)
(* that had missed the cache before and was waiting for the upstream       *)
C2_CachedWithinTtl ==
  [][/\ \A r \in Reqs :
          Misses(r) /\ req'[r].mode = "current" => ~Live(firstOk, req'[r].key, now)
     /\ ev' # ev /\ ev'.mode = "current" /\ ev'.didGet /\ ~ev'.called =>
          /\ ev'.resp.status = HTTP_200_OK
          /\ Live(cache, ev'.key, now)
          /\ ev'.resp.body = cache[ev'.key].val
          /\ cache' = cache
     /\ \A k \in DOMAIN cache :
          Live(cache, k, now) /\ now' = now /\ ~SameEntry(k) =>
            \E r \in Reqs : Completes(r) /\ req[r].key = k
     /\ \A k \in DOMAIN firstOk :
          Live(firstOk, k, now) /\ (\A r \in Reqs : req[r].pc = "calling" => req[r].key # k) =>
            Live(cache, k, now) /\ (now' = now => SameEntry(k))
    ]_vars

(* a GetCurrent has been served from the cache 900 s or more after the     *)
(* entry was stored                                                        *)
C2_Witness ==
  /\ ServedFromCache /\ ev.mode = "current"
  /\ now > 0
  /\ Live(firstOk, ev.key, now) /\ firstOk[ev.key].exp <= now + TTL - TickStep
  /\ ev.resp.body = firstOk[ev.key].val

=============================================================================
